---- MODULE Spec2Model ----
(***************************************************************************)
(* Model of nerfstudio/data/dataparsers/instant_ngp_with_depths_dataparser *)
(* .py: InstantNGPWithDepths._generate_dataparser_outputs, the class       *)
(* method get_focal_lengths and the module function get_depths.            *)
(*                                                                         *)
(* Conventions.  Python lists are TLA+ sequences (index i in Python is     *)
(* i + 1 here).  A Python str is a sequence of one-character strings, so   *)
(* that slicing and concatenation are computed.  A pathlib.Path is the     *)
(* sequence of its parts.  A local that is not yet bound is the empty      *)
(* sequence; once bound it is a one-element sequence holding the value.    *)
(* Angles are fixed-point numbers in 1/1000 radian, the results of tanh    *)
(* are in 1/1000, focal lengths are in pixels.                             *)
(***************************************************************************)
EXTENDS Integers, Sequences, FiniteSets, TLC

VARIABLES
    meta,                          \* line 72: load_from_json(config.data / "transforms.json")
    fs,                            \* the files below config.data: [images, arrays]
    config,                        \* lines 40-51: the parser's config
    split,                         \* line 70: the split argument
    pc,                            \* position in the running call
    idx,                           \* line 77: number of frames the for loop has taken
    image_filenames,               \* line 73
    poses,                         \* line 74, rebound at line 96
    depths,                        \* line 75
    num_skipped_image_filenames,   \* line 76
    console,                       \* lines printed with CONSOLE.print (line 89)
    camera_to_world,               \* line 99
    distortion_params,             \* line 101
    scene_box,                     \* line 108
    focal,                         \* lines 147-169: fl_x, fl_y as get_focal_lengths ended
    cameras,                       \* line 116
    dataparser_outputs,            \* line 129
    outcome                        \* "running", "returned" or the exception raised

vars == << meta, fs, config, split, pc, idx, image_filenames, poses, depths,
           num_skipped_image_filenames, console, camera_to_world,
           distortion_params, scene_box, focal, cameras, dataparser_outputs,
           outcome >>

-----------------------------------------------------------------------------
(* Bounds and input alphabets *)

MaxFrames == 3

\* file_path strings of the manifest: "", "a.png", "b.png"
EmptyStr == << >>
APng == << "a", ".", "p", "n", "g" >>
BPng == << "b", ".", "p", "n", "g" >>
FilePaths == { EmptyStr, APng, BPng }

\* 4x4 camera-to-world matrices (row major, last column = translation)
T1 == << << 1, 2, 3, 4 >>, << 5, 6, 7, 8 >>, << 9, 10, 11, 12 >>, << 0, 0, 0, 1 >> >>
T2 == << << 2, 0, 1, 7 >>, << 0, 3, 1, 5 >>, << 1, 1, 4, 3 >>, << 0, 0, 0, 1 >> >>
Transforms == { T1, T2 }

Frames == [ file_path : FilePaths, transform_matrix : Transforms ]

RECURSIVE SeqsUpTo(_, _)
SeqsUpTo(S, n) ==
    IF n = 0 THEN { << >> }
    ELSE LET shorter == SeqsUpTo(S, n - 1)
         IN  shorter \cup { Append(s, x) : s \in { t \in shorter : Len(t) = n - 1 }, x \in S }

-----------------------------------------------------------------------------
(* Strings and paths *)

\* config.data, the dataset root
DataDir == << << "d" >> >>

\* root / Path(rel) for a relative one-component rel; Path("") has no parts
JoinPath(root, rel) == IF rel = << >> THEN root ELSE Append(root, rel)

\* Python s[:-4]: all but the last four characters, "" when there are fewer
ExtLen == 4
StripExt(s) == IF Len(s) > ExtLen THEN SubSeq(s, 1, Len(s) - ExtLen) ELSE << >>

DispSuffix == << "_", "d", "i", "s", "p", ".", "n", "p", "y" >>

\* config.data / (frame["file_path"][:-4] + "_disp.npy")
DepthPath(file_path) == JoinPath(DataDir, StripExt(file_path) \o DispSuffix)

\* variant of the test of line 79: truthy only when the image file exists
PathBoolExists(fname) == fname \in fs.images

\* bool(fname) for the pathlib.Path of line 78: PurePath defines neither
\* __bool__ nor __len__, so every Path object is truthy
PathBool(fname) == TRUE

-----------------------------------------------------------------------------
(* The file system *)

ImagePaths == { JoinPath(DataDir, p) : p \in FilePaths \ { EmptyStr } }
ArrayPaths == { DepthPath(p) : p \in FilePaths }

\* The array stored in a .npy file, shaped [1][2][...]: two planes, each
\* tagged with the file it comes from
NpyContent(path) == << << [ file |-> path, plane |-> 0 ], [ file |-> path, plane |-> 1 ] >> >>

FileSystems == [ images : SUBSET ImagePaths, arrays : SUBSET ArrayPaths ]

\* np.load(path): raises when the file is missing
NpLoadOk(path) == path \in fs.arrays
\* imageio.imread(fname): raises when there is no such image file (the
\* dataset root itself, a directory, is never one)
ImreadOk(fname) == fname \in fs.images

\* variant: depths = [depth[0][0]], the list rebound instead of extended
AppendDepthRebind(ds, depth) == << depth[1][1] >>
\* depths.append(depth[0][0])
AppendDepth(ds, depth) == Append(ds, depth[1][1])

-----------------------------------------------------------------------------
(* get_depths *)

\* variant: the first array whatever the index
get_depths_first(image_idx, ds) == [ depth |-> ds[1] ]
\* return {"depth": depths[image_idx]}
get_depths(image_idx, ds) == [ depth |-> ds[image_idx + 1] ]

-----------------------------------------------------------------------------
(* Numbers: np.deg2rad, np.tanh and the focal length formula *)

\* np.deg2rad(d): d * pi / 180, from degrees to 1/1000 radian
deg2rad(d) == (d * 31416) \div 1800

\* e^(y/1000) in 1/1000, by its power series: term n is term (n-1) * y / n
RECURSIVE ExpSeries(_, _, _)
ExpSeries(y, n, term) ==
    IF term = 0 THEN 0
    ELSE term + ExpSeries(y, n + 1, (term * y) \div (n * 1000))

Exp(y) == ExpSeries(y, 1, 1000)

\* np.tanh(x): (e^2x - 1) / (e^2x + 1), x in 1/1000 radian, result in 1/1000
Tanh(x) == (1000 * (Exp(2 * x) - 1000)) \div (Exp(2 * x) + 1000)

\* fov_to_focal_length(rad, res): 0.5 * res / np.tanh(0.5 * rad)
fov_to_focal_length(rad, res) == (500 * res) \div Tanh(rad \div 2)

\* variants of the test of line 166: "and" for "or"; a test no value the
\* chain produces satisfies
FocalMissingBoth(fl_x, fl_y) == fl_x = 0 /\ fl_y = 0
FocalMissingIsNone(fl_x, fl_y) == fl_x < 0 \/ fl_y < 0
\* the test of line 166
FocalMissing(fl_x, fl_y) == fl_x = 0 \/ fl_y = 0

\* variant of get_focal_lengths: camera_angle_x tried before x_fov
get_focal_lengths_radians_first(m) ==
    LET x == IF "fl_x" \in DOMAIN m THEN [ v |-> m["fl_x"], err |-> FALSE ]
             ELSE IF "camera_angle_x" \in DOMAIN m THEN
                  IF "w" \in DOMAIN m
                  THEN [ v |-> fov_to_focal_length(m["camera_angle_x"], m["w"]), err |-> FALSE ]
                  ELSE [ v |-> 0, err |-> TRUE ]
             ELSE IF "x_fov" \in DOMAIN m THEN
                  IF "w" \in DOMAIN m
                  THEN [ v |-> fov_to_focal_length(deg2rad(m["x_fov"]), m["w"]), err |-> FALSE ]
                  ELSE [ v |-> 0, err |-> TRUE ]
             ELSE [ v |-> 0, err |-> FALSE ]
        y == IF "fl_y" \in DOMAIN m THEN [ v |-> m["fl_y"], err |-> FALSE ]
             ELSE IF "y_fov" \in DOMAIN m THEN
                  IF "h" \in DOMAIN m
                  THEN [ v |-> fov_to_focal_length(deg2rad(m["y_fov"]), m["h"]), err |-> FALSE ]
                  ELSE [ v |-> 0, err |-> TRUE ]
             ELSE IF "camera_angle_y" \in DOMAIN m THEN
                  IF "h" \in DOMAIN m
                  THEN [ v |-> fov_to_focal_length(m["camera_angle_y"], m["h"]), err |-> FALSE ]
                  ELSE [ v |-> 0, err |-> TRUE ]
             ELSE [ v |-> 0, err |-> FALSE ]
    IN  IF x.err THEN [ fl_x |-> 0, fl_y |-> 0, raised |-> "KeyError" ]
        ELSE IF y.err THEN [ fl_x |-> x.v, fl_y |-> 0, raised |-> "KeyError" ]
        ELSE IF FocalMissing(x.v, y.v)
             THEN [ fl_x |-> x.v, fl_y |-> y.v, raised |-> "AttributeError" ]
             ELSE [ fl_x |-> x.v, fl_y |-> y.v, raised |-> "none" ]

\* get_focal_lengths(meta).  The result records the locals fl_x and fl_y as
\* they are when the call ends and the exception it raised ("none" when it
\* returns the pair (fl_x, fl_y)).  meta["w"] or meta["h"] on a manifest
\* without that key raises KeyError in the branch that reads it.
get_focal_lengths(m) ==
    LET x == IF "fl_x" \in DOMAIN m THEN [ v |-> m["fl_x"], err |-> FALSE ]
             ELSE IF "x_fov" \in DOMAIN m THEN
                  IF "w" \in DOMAIN m
                  THEN [ v |-> fov_to_focal_length(deg2rad(m["x_fov"]), m["w"]), err |-> FALSE ]
                  ELSE [ v |-> 0, err |-> TRUE ]
             ELSE IF "camera_angle_x" \in DOMAIN m THEN
                  IF "w" \in DOMAIN m
                  THEN [ v |-> fov_to_focal_length(m["camera_angle_x"], m["w"]), err |-> FALSE ]
                  ELSE [ v |-> 0, err |-> TRUE ]
             ELSE [ v |-> 0, err |-> FALSE ]
        y == IF "fl_y" \in DOMAIN m THEN [ v |-> m["fl_y"], err |-> FALSE ]
             ELSE IF "y_fov" \in DOMAIN m THEN
                  IF "h" \in DOMAIN m
                  THEN [ v |-> fov_to_focal_length(deg2rad(m["y_fov"]), m["h"]), err |-> FALSE ]
                  ELSE [ v |-> 0, err |-> TRUE ]
             ELSE IF "camera_angle_y" \in DOMAIN m THEN
                  IF "h" \in DOMAIN m
                  THEN [ v |-> fov_to_focal_length(m["camera_angle_y"], m["h"]), err |-> FALSE ]
                  ELSE [ v |-> 0, err |-> TRUE ]
             ELSE [ v |-> 0, err |-> FALSE ]
    IN  IF x.err THEN [ fl_x |-> 0, fl_y |-> 0, raised |-> "KeyError" ]
        ELSE IF y.err THEN [ fl_x |-> x.v, fl_y |-> 0, raised |-> "KeyError" ]
        ELSE IF FocalMissing(x.v, y.v)
             THEN [ fl_x |-> x.v, fl_y |-> y.v, raised |-> "AttributeError" ]
             ELSE [ fl_x |-> x.v, fl_y |-> y.v, raised |-> "none" ]

-----------------------------------------------------------------------------
(* Poses *)

\* variant: the translation scaled by scene_scale * scale_factor
ScaleTranslationAndFactor(ps, cfg) ==
    [ n \in 1..Len(ps) |->
        [ r \in 1..4 |->
            [ c \in 1..4 |->
                IF r <= 3 /\ c = 4
                THEN ps[n][r][c] * cfg.scene_scale * cfg.scale_factor
                ELSE ps[n][r][c] ] ] ]
\* poses[:, :3, 3] *= self.config.scene_scale (poses cast to float32: the
\* entries and the scales used here are small integers, exact in float32)
ScaleTranslation(ps, cfg) ==
    [ n \in 1..Len(ps) |->
        [ r \in 1..4 |->
            [ c \in 1..4 |->
                IF r <= 3 /\ c = 4 THEN ps[n][r][c] * cfg.scene_scale ELSE ps[n][r][c] ] ] ]

\* poses[:, :3]
Top3Rows(ps) == [ n \in 1..Len(ps) |-> [ r \in 1..3 |-> ps[n][r] ] ]

\* variant of the test of line 88: report only a positive count
ShouldReportPositive(n) == n > 0
\* the test of line 88
ShouldReport(n) == n >= 0

-----------------------------------------------------------------------------
(* Inputs of a parse call *)

\* a manifest without the keys in drop
Without(m, drop) == [ k \in DOMAIN m \ drop |-> m[k] ]

FocalKeys == { "fl_x", "fl_y", "x_fov", "y_fov", "camera_angle_x", "camera_angle_y" }

\* the intrinsics of a well-formed manifest (distortion in 1/1000)
Intrinsics ==
    [ k1 |-> 10, k2 |-> 20, p1 |-> 30, p2 |-> 40, aabb_scale |-> 4,
      cx |-> 400, cy |-> 300, h |-> 600, w |-> 800 ]

Direct == [ fl_x |-> 50, fl_y |-> 60 ]
Angles == [ x_fov |-> 60, camera_angle_y |-> 857 ]

\* the manifests of the parse calls, frames apart: with direct focal
\* lengths, with fields of view, with one axis only, with no focal field at
\* all, and with one of the other keys missing
ManifestHeads ==
    { Intrinsics @@ Direct,
      Intrinsics @@ Angles,
      Without(Intrinsics @@ Direct, { "fl_y" }),
      Intrinsics,
      Without(Intrinsics @@ Direct, { "k2" }),
      Without(Intrinsics @@ Direct, { "aabb_scale" }),
      Without(Intrinsics @@ Direct, { "cy" }),
      Without(Intrinsics @@ Angles, { "w" }),
      Without(Intrinsics, { "p1" }) }

Configs == [ scene_scale : { 2, 3 }, scale_factor : { 1, 2 } ]

Unbound == << >>

Init ==
    /\ meta \in { head @@ [ frames |-> fr ] :
                    head \in ManifestHeads, fr \in SeqsUpTo(Frames, MaxFrames) }
    /\ fs \in FileSystems
    /\ config \in Configs
    /\ split = "train"
    /\ pc = "loop"
    /\ idx = 0
    /\ image_filenames = << >>
    /\ poses = << >>
    /\ depths = << >>
    /\ num_skipped_image_filenames = 0
    /\ console = << >>
    /\ camera_to_world = Unbound
    /\ distortion_params = Unbound
    /\ scene_box = Unbound
    /\ focal = Unbound
    /\ cameras = Unbound
    /\ dataparser_outputs = Unbound
    /\ outcome = "running"

-----------------------------------------------------------------------------
(* _generate_dataparser_outputs, statement by statement *)

\* the call ends with exception exc
Raise(exc) == outcome' = exc /\ pc' = "done"

\* one iteration of the for loop of lines 77-87 (the decoded image's
\* height and width are bound to locals nothing reads)
FrameLoopStep ==
    /\ pc = "loop" /\ idx < Len(meta["frames"])
    /\ LET frame == meta["frames"][idx + 1]
           fname == JoinPath(DataDir, frame.file_path)
           dpath == DepthPath(frame.file_path)
       IN  IF ~PathBool(fname)
           THEN /\ num_skipped_image_filenames' = num_skipped_image_filenames + 1
                /\ idx' = idx + 1
                /\ UNCHANGED << image_filenames, poses, depths, pc, outcome >>
           ELSE /\ image_filenames' = Append(image_filenames, fname)
                /\ poses' = Append(poses, frame.transform_matrix)
                /\ UNCHANGED num_skipped_image_filenames
                /\ IF ~NpLoadOk(dpath)
                   THEN Raise("IOError") /\ UNCHANGED << depths, idx >>
                   ELSE /\ depths' = AppendDepth(depths, NpyContent(dpath))
                        /\ IF ~ImreadOk(fname)
                           THEN Raise("IOError") /\ UNCHANGED idx
                           ELSE idx' = idx + 1 /\ UNCHANGED << pc, outcome >>
    /\ UNCHANGED << meta, fs, config, split, console, camera_to_world,
                    distortion_params, scene_box, focal, cameras, dataparser_outputs >>

\* lines 88-89, once the loop is exhausted
ReportSkipped ==
    /\ pc = "loop" /\ idx = Len(meta["frames"])
    /\ console' = IF ShouldReport(num_skipped_image_filenames)
                  THEN Append(console, [ text |-> "Skipping", count |-> num_skipped_image_filenames,
                                         split |-> split ])
                  ELSE console
    /\ pc' = "assert"
    /\ UNCHANGED << meta, fs, config, split, idx, image_filenames, poses, depths,
                    num_skipped_image_filenames, camera_to_world, distortion_params,
                    scene_box, focal, cameras, dataparser_outputs, outcome >>

\* lines 90-95
AssertNonEmpty ==
    /\ pc = "assert"
    /\ IF Len(image_filenames) # 0
       THEN pc' = "poses" /\ UNCHANGED outcome
       ELSE Raise("AssertionError")
    /\ UNCHANGED << meta, fs, config, split, idx, image_filenames, poses, depths,
                    num_skipped_image_filenames, console, camera_to_world,
                    distortion_params, scene_box, focal, cameras, dataparser_outputs >>

\* lines 96-99
ScalePoses ==
    /\ pc = "poses"
    /\ poses' = ScaleTranslation(poses, config)
    /\ camera_to_world' = << Top3Rows(poses') >>
    /\ pc' = "distortion"
    /\ UNCHANGED << meta, fs, config, split, idx, image_filenames, depths,
                    num_skipped_image_filenames, console, distortion_params,
                    scene_box, focal, cameras, dataparser_outputs, outcome >>

\* lines 101-103: the four coefficients are read from the manifest
DistortionParams ==
    /\ pc = "distortion"
    /\ IF { "k1", "k2", "p1", "p2" } \subseteq DOMAIN meta
       THEN /\ distortion_params' = << [ k1 |-> meta["k1"], k2 |-> meta["k2"],
                                          p1 |-> meta["p1"], p2 |-> meta["p2"] ] >>
            /\ pc' = "scene_box" /\ UNCHANGED outcome
       ELSE Raise("KeyError") /\ UNCHANGED distortion_params
    /\ UNCHANGED << meta, fs, config, split, idx, image_filenames, poses, depths,
                    num_skipped_image_filenames, console, camera_to_world,
                    scene_box, focal, cameras, dataparser_outputs >>

\* lines 107-112
BuildSceneBox ==
    /\ pc = "scene_box"
    /\ IF "aabb_scale" \in DOMAIN meta
       THEN /\ LET s == meta["aabb_scale"]
               IN  scene_box' = << [ aabb |-> << << -s, -s, -s >>, << s, s, s >> >> ] >>
            /\ pc' = "focal" /\ UNCHANGED outcome
       ELSE Raise("KeyError") /\ UNCHANGED scene_box
    /\ UNCHANGED << meta, fs, config, split, idx, image_filenames, poses, depths,
                    num_skipped_image_filenames, console, camera_to_world,
                    distortion_params, focal, cameras, dataparser_outputs >>

\* line 114
ResolveFocal ==
    /\ pc = "focal"
    /\ focal' = << get_focal_lengths(meta) >>
    /\ IF focal'[1].raised = "none"
       THEN pc' = "cameras" /\ UNCHANGED outcome
       ELSE Raise(focal'[1].raised)
    /\ UNCHANGED << meta, fs, config, split, idx, image_filenames, poses, depths,
                    num_skipped_image_filenames, console, camera_to_world,
                    distortion_params, scene_box, cameras, dataparser_outputs >>

\* lines 116-126
BuildCameras ==
    /\ pc = "cameras"
    /\ IF { "cx", "cy", "h", "w" } \subseteq DOMAIN meta
       THEN /\ cameras' = << [ fx |-> focal[1].fl_x, fy |-> focal[1].fl_y,
                                cx |-> meta["cx"], cy |-> meta["cy"],
                                distortion_params |-> distortion_params[1],
                                height |-> meta["h"], width |-> meta["w"],
                                camera_to_worlds |-> camera_to_world[1],
                                camera_type |-> "PERSPECTIVE" ] >>
            /\ pc' = "outputs" /\ UNCHANGED outcome
       ELSE Raise("KeyError") /\ UNCHANGED cameras
    /\ UNCHANGED << meta, fs, config, split, idx, image_filenames, poses, depths,
                    num_skipped_image_filenames, console, camera_to_world,
                    distortion_params, scene_box, focal, dataparser_outputs >>

\* lines 129-137
ReturnOutputs ==
    /\ pc = "outputs"
    /\ dataparser_outputs' =
           << [ image_filenames |-> image_filenames,
                cameras |-> cameras[1],
                scene_box |-> scene_box[1],
                additional_inputs |->
                    [ semantics |-> [ func |-> "get_depths", kwargs |-> [ depths |-> depths ] ] ],
                depths |-> depths ] >>
    /\ outcome' = "returned"
    /\ pc' = "done"
    /\ UNCHANGED << meta, fs, config, split, idx, image_filenames, poses, depths,
                    num_skipped_image_filenames, console, camera_to_world,
                    distortion_params, scene_box, focal, cameras >>

Next ==
    \/ FrameLoopStep
    \/ ReportSkipped
    \/ AssertNonEmpty
    \/ ScalePoses
    \/ DistortionParams
    \/ BuildSceneBox
    \/ ResolveFocal
    \/ BuildCameras
    \/ ReturnOutputs

Spec == Init /\ [][Next]_vars

-----------------------------------------------------------------------------
(* get_focal_lengths on its own: called on a manifest, then called again   *)
(* on manifests that differ from the last one in one key                   *)

\* the values a key may have; fields of view are angles strictly between 0
\* and 180 degrees, and a resolution or a direct focal length may be 0
FocalValues ==
    [ fl_x |-> { 0, 50 }, fl_y |-> { 0, 60 },
      x_fov |-> { 60, 90 }, y_fov |-> { 60, 90 },
      camera_angle_x |-> { deg2rad(60), 857 }, camera_angle_y |-> { deg2rad(90), 857 },
      w |-> { 0, 800 }, h |-> { 0, 600 } ]

FocalManifests ==
    { Without(full, drop) :
        full \in [ fl_x : FocalValues.fl_x, fl_y : FocalValues.fl_y,
                   x_fov : FocalValues.x_fov, y_fov : FocalValues.y_fov,
                   camera_angle_x : FocalValues.camera_angle_x,
                   camera_angle_y : FocalValues.camera_angle_y,
                   w : FocalValues.w, h : FocalValues.h ],
        drop \in SUBSET FocalKeys }

InitFocal ==
    /\ meta \in FocalManifests
    /\ fs = [ images |-> { }, arrays |-> { } ]
    /\ config = [ scene_scale |-> 2, scale_factor |-> 1 ]
    /\ split = "train"
    /\ pc = "call"
    /\ idx = 0
    /\ image_filenames = << >>
    /\ poses = << >>
    /\ depths = << >>
    /\ num_skipped_image_filenames = 0
    /\ console = << >>
    /\ camera_to_world = Unbound
    /\ distortion_params = Unbound
    /\ scene_box = Unbound
    /\ focal = Unbound
    /\ cameras = Unbound
    /\ dataparser_outputs = Unbound
    /\ outcome = "running"

\* InstantNGPWithDepths.get_focal_lengths(m)
CallGetFocalLengths(m) ==
    /\ meta' = m
    /\ focal' = << get_focal_lengths(m) >>
    /\ outcome' = IF focal'[1].raised = "none" THEN "returned" ELSE focal'[1].raised
    /\ pc' = "called"
    /\ UNCHANGED << fs, config, split, idx, image_filenames, poses, depths,
                    num_skipped_image_filenames, console, camera_to_world,
                    distortion_params, scene_box, cameras, dataparser_outputs >>

FirstCall ==
    /\ pc = "call"
    /\ CallGetFocalLengths(meta)

\* the same call on a manifest with one key set to another value
CallWithKeySet ==
    /\ pc = "called"
    /\ \E k \in DOMAIN FocalValues : \E v \in FocalValues[k] :
          /\ IF k \in DOMAIN meta THEN meta[k] # v ELSE TRUE
          /\ CallGetFocalLengths((k :> v) @@ meta)

\* the same call on a manifest with one key removed
CallWithKeyRemoved ==
    /\ pc = "called"
    /\ \E k \in DOMAIN meta : CallGetFocalLengths(Without(meta, { k }))

NextFocal ==
    \/ FirstCall
    \/ CallWithKeySet
    \/ CallWithKeyRemoved

SpecFocal == InitFocal /\ [][NextFocal]_vars

-----------------------------------------------------------------------------
(* Vocabulary of the properties *)

frames == meta["frames"]

\* what line 78 resolves frame j's file_path to
Resolved(j) == JoinPath(DataDir, frames[j].file_path)

\* the frames among the first n that the test of line 79 rejects
Rejected(n) == { j \in 1..n : ~PathBool(Resolved(j)) }

\* the manifest indices of the frames the loop keeps, in manifest order
RetainedIndices ==
    SelectSeq([ j \in 1..Len(frames) |-> j ], LAMBDA j : PathBool(Resolved(j)))

\* both files of frame j are on disk
FilesPresent(j) ==
    /\ DepthPath(frames[j].file_path) \in fs.arrays
    /\ Resolved(j) \in fs.images

\* the frame loop has run to completion
LoopCompleted == pc # "loop" /\ outcome # "IOError"

-----------------------------------------------------------------------------
\* C1: a manifest all of whose frames have a falsy file_path (the empty
\* string) makes the call fail with the "No image files found" assertion,
\* with num_skipped_image_filenames = len(frames).
C1_AllFalsyPathsFailEmpty ==
    ( /\ pc = "done"
      /\ Len(frames) > 0
      /\ \A j \in 1..Len(frames) : frames[j].file_path = EmptyStr )
    => ( /\ outcome = "AssertionError"
         /\ num_skipped_image_filenames = Len(frames) )

\* C2: after every iteration that completes without an error, and in every
\* returned output, image paths, poses and depth arrays have one length,
\* the number of frames taken so far minus the skip counter.
C2_RetainedLengthsAgree ==
    /\ outcome # "IOError" =>
          /\ Len(image_filenames) = idx - num_skipped_image_filenames
          /\ Len(poses) = Len(image_filenames)
          /\ Len(depths) = Len(image_filenames)
    /\ outcome = "returned" =>
          LET out == dataparser_outputs[1]
          IN  /\ idx = Len(frames)
              /\ Len(out.image_filenames) = Len(frames) - num_skipped_image_filenames
              /\ Len(out.cameras.camera_to_worlds) = Len(out.image_filenames)
              /\ Len(out.depths) = Len(out.image_filenames)

C2_Witness ==
    /\ outcome = "returned"
    /\ Len(dataparser_outputs[1].depths) >= 2

\* C3: a returned output keeps the retained frames in manifest order; path,
\* pose and depth at index i come from the same manifest frame, and
\* get_depths(i, depths) is {"depth": d} with d the array loaded for the
\* i-th retained image.
C3_OrderAndCorrespondence ==
    outcome = "returned" =>
        LET out == dataparser_outputs[1]
            kwargs == out.additional_inputs.semantics.kwargs
        IN  /\ Len(out.image_filenames) = Len(RetainedIndices)
            /\ \A i \in 1..Len(RetainedIndices) :
                  LET fr == frames[RetainedIndices[i]]
                      loaded == NpyContent(DepthPath(fr.file_path))[1][1]
                  IN  /\ out.image_filenames[i] = JoinPath(DataDir, fr.file_path)
                      /\ \A r \in 1..3 : \A c \in 1..3 :
                            out.cameras.camera_to_worlds[i][r][c] = fr.transform_matrix[r][c]
                      /\ out.depths[i] = loaded
                      /\ get_depths(i - 1, kwargs.depths) = [ depth |-> loaded ]

C3_Witness ==
    /\ outcome = "returned"
    /\ Len(frames) >= 2
    /\ frames[1].file_path # frames[2].file_path
    /\ frames[1].transform_matrix # frames[2].transform_matrix

-----------------------------------------------------------------------------
(* Focal lengths *)

XKeys == { "fl_x", "x_fov", "camera_angle_x" }
YKeys == { "fl_y", "y_fov", "camera_angle_y" }

Has(m, k) == k \in DOMAIN m

\* m and n have key k alike: both lack it, or both have it with one value
SameAt(m, n, k) ==
    IF Has(m, k) THEN (IF Has(n, k) THEN m[k] = n[k] ELSE FALSE) ELSE ~Has(n, k)

\* the call of the current state resolved both axes (no KeyError)
Resolved2 == pc = "called" /\ focal[1].raised # "KeyError"

\* C4, between two calls that both resolve their axes: the value of an
\* axis is the same when the manifests differ only in keys of the other
\* axis (or its resolution), or only in keys of lower priority than the
\* first present one.
C4_Step ==
    ( Resolved2 /\ Resolved2' ) =>
        /\ ( (\A k \in XKeys \cup { "w" } : SameAt(meta, meta', k))
                => focal'[1].fl_x = focal[1].fl_x )
        /\ ( (\A k \in YKeys \cup { "h" } : SameAt(meta, meta', k))
                => focal'[1].fl_y = focal[1].fl_y )
        /\ ( (Has(meta, "fl_x") /\ SameAt(meta, meta', "fl_x"))
                => focal'[1].fl_x = focal[1].fl_x )
        /\ ( (Has(meta, "fl_y") /\ SameAt(meta, meta', "fl_y"))
                => focal'[1].fl_y = focal[1].fl_y )
        /\ ( (Has(meta, "x_fov") /\ (\A k \in { "fl_x", "x_fov", "w" } : SameAt(meta, meta', k)))
                => focal'[1].fl_x = focal[1].fl_x )
        /\ ( (Has(meta, "y_fov") /\ (\A k \in { "fl_y", "y_fov", "h" } : SameAt(meta, meta', k)))
                => focal'[1].fl_y = focal[1].fl_y )

\* C4, in one call: the direct focal length is taken as it is when present,
\* and an axis with none of its three keys stays at the sentinel 0.
C4_State ==
    Resolved2 =>
        /\ Has(meta, "fl_x") => focal[1].fl_x = meta["fl_x"]
        /\ Has(meta, "fl_y") => focal[1].fl_y = meta["fl_y"]
        /\ DOMAIN meta \cap XKeys = { } => focal[1].fl_x = 0
        /\ DOMAIN meta \cap YKeys = { } => focal[1].fl_y = 0

\* C4: get_focal_lengths resolves each axis on its own, the first present
\* of direct focal length, degrees field of view, radians field of view
\* deciding; a lower-priority field never affects an axis that has a
\* higher-priority one, and no field of one axis affects the other axis.
C4_AxesIndependentByPriority == [] C4_State /\ [][C4_Step]_vars

C4_Witness ==
    /\ Resolved2
    /\ XKeys \subseteq DOMAIN meta
    /\ { "y_fov", "camera_angle_y" } \subseteq DOMAIN meta /\ ~Has(meta, "fl_y")
    /\ meta["camera_angle_y"] # deg2rad(meta["y_fov"])
    /\ meta["h"] # 0

\* an axis has no usable field: none at all, a direct focal length of 0, or
\* a field of view with a resolution of 0
AxisUnusable(m, direct, deg, rad, res) ==
    IF Has(m, direct) THEN m[direct] = 0
    ELSE IF Has(m, deg) \/ Has(m, rad) THEN m[res] = 0
    ELSE TRUE

\* C5: get_focal_lengths raises the AttributeError exactly when one of the
\* two resolved values is 0 (an axis without a usable field, a direct
\* fl_x or fl_y of 0); otherwise it returns the pair (fl_x, fl_y).
C5_RaisesExactlyOnZero ==
    Resolved2 =>
        LET r == focal[1]
        IN  /\ r.raised = "AttributeError" <=> (r.fl_x = 0 \/ r.fl_y = 0)
            /\ r.raised = "none" <=> (r.fl_x # 0 /\ r.fl_y # 0)
            /\ outcome = (IF r.raised = "none" THEN "returned" ELSE "AttributeError")
            /\ r.fl_x = 0 <=> AxisUnusable(meta, "fl_x", "x_fov", "camera_angle_x", "w")
            /\ r.fl_y = 0 <=> AxisUnusable(meta, "fl_y", "y_fov", "camera_angle_y", "h")

C5_Witness ==
    /\ Resolved2
    /\ focal[1].raised = "AttributeError"
    /\ Has(meta, "fl_x") /\ meta["fl_x"] = 0
    /\ focal[1].fl_y # 0

-----------------------------------------------------------------------------
\* the call gets as far as line 114: every frame's files load, a frame is
\* retained, and the distortion and aabb_scale keys are there
ReachesFocal ==
    /\ Len(frames) > 0
    /\ \A j \in 1..Len(frames) : FilesPresent(j)
    /\ { "k1", "k2", "p1", "p2", "aabb_scale" } \subseteq DOMAIN meta

NoFocalFields == DOMAIN meta \cap FocalKeys = { }

\* C6: on a manifest with none of the six focal-length fields the call
\* fails with the focal-length AttributeError (once the statements before
\* line 114 have passed), and no Cameras object is constructed before that
\* failure, nor ever.
C6_FocalErrorBeforeCameras ==
    NoFocalFields =>
        /\ cameras = Unbound
        /\ dataparser_outputs = Unbound
        /\ outcome # "returned"
        /\ pc \notin { "cameras", "outputs" }
        /\ focal # Unbound => outcome = "AttributeError" /\ pc = "done"
        /\ (pc = "done" /\ ReachesFocal) => outcome = "AttributeError"

C6_Witness ==
    /\ NoFocalFields
    /\ outcome = "AttributeError"
    /\ scene_box # Unbound
    /\ cameras = Unbound

\* tan, by sin / cos, each by its power series (x in 1/1000 radian, results
\* in 1/1000): term n is term (n-2) * x^2 / ((n-1) n), signs alternating
RECURSIVE AltSeries(_, _, _, _)
AltSeries(x, n, term, sign) ==
    IF term = 0 THEN 0
    ELSE sign * term
         + AltSeries(x, n + 2, (((term * x) \div 1000) * x) \div (1000 * (n + 1) * (n + 2)), -sign)

Sin(x) == AltSeries(x, 1, x, 1)
Cos(x) == AltSeries(x, 0, 1000, 1)
Tan(x) == (1000 * Sin(x)) \div Cos(x)

\* 0.5 * res / tan(0.5 * rad)
FocalByTan(rad, res) == (500 * res) \div Tan(rad \div 2)

\* a and b differ by at most one percent of b
Near(a, b) == 100 * (IF a > b THEN a - b ELSE b - a) <= b

\* C7: an axis resolved from a field of view is
\* 0.5 * resolution / tan(0.5 * fov_radians), resolution w for x and h for
\* y, degrees converted to radians first, radians used as they are; a
\* degrees field and a radians field of one angle give one focal length.
C7_FocalIsHalfResOverTan ==
    Resolved2 =>
        /\ (~Has(meta, "fl_x") /\ Has(meta, "x_fov"))
              => Near(focal[1].fl_x, FocalByTan(deg2rad(meta["x_fov"]), meta["w"]))
        /\ (~Has(meta, "fl_x") /\ ~Has(meta, "x_fov") /\ Has(meta, "camera_angle_x"))
              => Near(focal[1].fl_x, FocalByTan(meta["camera_angle_x"], meta["w"]))
        /\ (~Has(meta, "fl_y") /\ Has(meta, "y_fov"))
              => Near(focal[1].fl_y, FocalByTan(deg2rad(meta["y_fov"]), meta["h"]))
        /\ (~Has(meta, "fl_y") /\ ~Has(meta, "y_fov") /\ Has(meta, "camera_angle_y"))
              => Near(focal[1].fl_y, FocalByTan(meta["camera_angle_y"], meta["h"]))

C9_OneSkipLine ==
    /\ pc = "loop" => console = << >>
    /\ outcome = "IOError" => console = << >>
    /\ LoopCompleted =>
          /\ idx = Len(frames)
          /\ Len(console) = 1
          /\ console[1].text = "Skipping"
          /\ console[1].count = num_skipped_image_filenames
          /\ console[1].count = Cardinality(Rejected(Len(frames)))

C9_Witness ==
    /\ outcome = "AssertionError"
    /\ Len(console) = 1
    /\ console[1].count = 0

\* C10: a frame whose image or depth file is missing is not skipped: the
\* load raises an I/O error that ends the call at that frame, the skip
\* counter is not incremented for it, no later frame is processed and no
\* output is returned.
C10_MissingFileAborts ==
    /\ \A j \in 1..idx : FilesPresent(j)
    /\ outcome = "IOError" =>
          /\ idx < Len(frames) /\ ~FilesPresent(idx + 1)
          /\ pc = "done"
          /\ num_skipped_image_filenames = Cardinality(Rejected(idx))
          /\ Len(image_filenames) = idx + 1 - num_skipped_image_filenames
          /\ dataparser_outputs = Unbound /\ cameras = Unbound
    /\ (idx < Len(frames) /\ ~FilesPresent(idx + 1) /\ pc = "done") => outcome = "IOError"
    /\ outcome = "returned" => \A j \in 1..Len(frames) : FilesPresent(j)

C10_Witness ==
    /\ outcome = "IOError"
    /\ idx = 1
    /\ Len(frames) = 3
    /\ Len(image_filenames) = 2

====
